---- MODULE Spec2Model ----
(***************************************************************************)
(* Model of src/src/sfc.ts: the single-file-component entry transform.     *)
(*                                                                         *)
(* Strings are sequences of characters (one-character strings).  A few    *)
(* opaque pieces of text that no code of the file ever looks into (file    *)
(* paths, hash tokens) are single elements of such a sequence.             *)
(* JavaScript values that may be undefined, true or a string are records   *)
(* [t |-> "undef" | "true" | "str", s |-> <characters>].                    *)
(***************************************************************************)
EXTENDS Integers, Sequences, FiniteSets, TLC

VARIABLES
    args,        \* the arguments of the invocation of transformSFCEntry
    pc,          \* "pending": invocation not yet run; "done": it has returned
    cache,       \* the descriptor cache: resource path -> descriptor or NoEntry
    lastParsed,  \* history: resource path -> what parse() last returned for it
    reported,    \* what the last invocation passed to pluginContext.error
    result,      \* what the last invocation returned
    q            \* an application of attrsToQuery: its arguments and its result

vars == <<args, pc, cache, lastParsed, reported, result, q>>

----------------------------------------------------------------------------
(* Bounds *)

MaxAttrs == 2     \* longest attribute map given to attrsToQuery on its own
MaxStyles == 2    \* most style sections of a document
MaxBlocks == 2    \* most custom blocks of a document
MaxErrors == 2    \* most diagnostics the parser returns for a document

----------------------------------------------------------------------------
(* Text *)

sModule   == <<"m","o","d","u","l","e">>
sModules  == <<"m","o","d","u","l","e","s">>
sScoped   == <<"s","c","o","p","e","d">>
sLang     == <<"l","a","n","g">>
sId       == <<"i","d">>
sIndex    == <<"i","n","d","e","x">>
sSrc      == <<"s","r","c">>
sType     == <<"t","y","p","e">>
sTrue     == <<"t","r","u","e">>
sUndefined == <<"u","n","d","e","f","i","n","e","d">>
sJs       == <<"j","s">>
sCss      == <<"c","s","s">>
sTs       == <<"t","s">>
sPug      == <<"p","u","g">>
sScss     == <<"s","c","s","s">>
sJson     == <<"j","s","o","n">>
sCls      == <<"c","l","s">>
sScript   == <<"s","c","r","i","p","t">>
sTemplate == <<"t","e","m","p","l","a","t","e">>
sStyle    == <<"s","t","y","l","e">>
sI18n     == <<"i","1","8","n">>
sDocs     == <<"d","o","c","s">>
sVue      == <<"v","u","e">>
sDotJs    == <<".","j","s">>
sDataV    == <<"d","a","t","a","-","v","-">>
sDollarStyle == <<"$","s","t","y","l","e">>
sColonKey == <<"a",":","b">>
sSpaced   == <<"x"," ","y">>
sAmpVal   == <<"p","&","q","=","r">>
sSetup    == <<"s","e","t","u","p">>
sTrueX    == <<"t","r","u","e","x">>

Undef     == [t |-> "undef", s |-> <<>>]
True      == [t |-> "true", s |-> <<>>]
Str(s)    == [t |-> "str", s |-> s]

\* JavaScript truthiness of undefined | true | string
Truthy(v) == v.t = "true" \/ (v.t = "str" /\ v.s # <<>>)

\* String(v), and `${v}` in a template literal
StringOf(v) == CASE v.t = "true" -> sTrue
                 [] v.t = "str" -> v.s
                 [] OTHER -> sUndefined

\* `${i}` for an index
Digits == <<"0","1","2","3","4","5","6","7","8","9">>
NumStr(i) == IF i < 10 THEN <<Digits[i + 1]>>
             ELSE <<Digits[(i \div 10) + 1], Digits[(i % 10) + 1]>>

\* qs.escape on one character: the unreserved characters stay, the others
\* become their percent-encoding
EscapeChar(c) == CASE c = "&" -> <<"%","2","6">>
                   [] c = "=" -> <<"%","3","D">>
                   [] c = " " -> <<"%","2","0">>
                   [] c = ":" -> <<"%","3","A">>
                   [] c = "?" -> <<"%","3","F">>
                   [] c = "$" -> <<"%","2","4">>
                   [] OTHER -> <<c>>

RECURSIVE Escape(_)
Escape(s) == IF s = <<>> THEN <<>> ELSE EscapeChar(Head(s)) \o Escape(Tail(s))

----------------------------------------------------------------------------
(* Attribute maps: a sequence of [name, value] in insertion order *)

Attr(name, value) == [name |-> name, value |-> value]

Has(attrs, name) == \E i \in 1..Len(attrs) : attrs[i].name = name

Get(attrs, name) ==
    IF Has(attrs, name)
    THEN attrs[CHOOSE i \in 1..Len(attrs) : attrs[i].name = name].value
    ELSE Undef

----------------------------------------------------------------------------
(* attrsToQuery *)

ignoreList == {sId, sIndex, sSrc, sType, sLang}

IsIgnored(name) == name \in ignoreList

\* a bare key for the present marker: what the serialization does not do
MutAttrParamBareTrue(name, value) ==
    <<"&">> \o Escape(name) \o
        (IF value.t = "str" /\ value.s # <<>>
         THEN <<"=">> \o Escape(value.s) ELSE <<>>)

AttrParam(name, value) ==
    <<"&">> \o Escape(name) \o
        (IF Truthy(value) THEN <<"=">> \o Escape(StringOf(value)) ELSE <<>>)

RECURSIVE AttrsPart(_)
AttrsPart(attrs) ==
    IF attrs = <<>> THEN <<>>
    ELSE (IF ~IsIgnored(Head(attrs).name)
          THEN AttrParam(Head(attrs).name, Head(attrs).value)
          ELSE <<>>) \o AttrsPart(Tail(attrs))

\* the author's lang wins over a forced fallback
MutLangSuffixAttrWins(attrs, langFallback, forceLangFallback) ==
    IF Truthy(langFallback) \/ Truthy(Get(attrs, sLang))
    THEN IF Has(attrs, sLang)
         THEN <<"&">> \o sLang \o <<".">> \o StringOf(Get(attrs, sLang))
         ELSE <<"&">> \o sLang \o <<".">> \o StringOf(langFallback)
    ELSE <<>>

LangSuffix(attrs, langFallback, forceLangFallback) ==
    IF Truthy(langFallback) \/ Truthy(Get(attrs, sLang))
    THEN IF Has(attrs, sLang)
         THEN IF forceLangFallback
              THEN <<"&">> \o sLang \o <<".">> \o StringOf(langFallback)
              ELSE <<"&">> \o sLang \o <<".">> \o StringOf(Get(attrs, sLang))
         ELSE <<"&">> \o sLang \o <<".">> \o StringOf(langFallback)
    ELSE <<>>

attrsToQuery(attrs, langFallback, forceLangFallback) ==
    AttrsPart(attrs) \o LangSuffix(attrs, langFallback, forceLangFallback)

----------------------------------------------------------------------------
(* Documents: what parse() returns *)

\* A section of a document.  src, scoped and module are the fields the
\* parser derives from the section's attributes.
Section(type, attrs) ==
    [present |-> TRUE, type |-> type, attrs |-> attrs,
     src |-> Get(attrs, sSrc),
     scoped |-> Has(attrs, sScoped),
     module |-> Get(attrs, sModule)]

Absent ==
    [present |-> FALSE, type |-> <<>>, attrs |-> <<>>,
     src |-> Undef, scoped |-> FALSE, module |-> Undef]

Descriptor(script, scriptSetup, template, styles, customBlocks) ==
    [script |-> script, scriptSetup |-> scriptSetup, template |-> template,
     styles |-> styles, customBlocks |-> customBlocks,
     scriptCompiled |-> Absent]

\* the fields of a descriptor that parse() fills in
Parsed(d) == [d EXCEPT !.scriptCompiled = Absent]

----------------------------------------------------------------------------
(* Module text: a sequence of lines *)

Line(kind, fn, idx, req) == [kind |-> kind, fn |-> fn, idx |-> idx, req |-> req]

Blank == Line("blank", "", -1, <<>>)

\* the lines of the empty string
Empty == <<Blank>>

\* text + "\n" + line
AppendLine(text, line) == Append(text, line)

\* text + line + "\n" for a text that is empty or ends in "\n"
AppendLineNl(text, line) == SubSeq(text, 1, Len(text) - 1) \o <<line, Blank>>

\* src || resourcePath
SrcOr(section, resourcePath) ==
    IF Truthy(section.src) THEN section.src.s ELSE <<resourcePath>>

SrcQuery(section) == IF Truthy(section.src) THEN <<"&">> \o sSrc ELSE <<>>

----------------------------------------------------------------------------
(* genTemplateCode *)

RenderFnName(isServer) == IF isServer THEN "ssrRender" ELSE "render"

TemplateRequest(template, resourcePath, id) ==
    SrcOr(template, resourcePath)
        \o <<"?">> \o sVue \o <<"&">> \o sType \o <<"=">> \o sTemplate
        \o <<"&">> \o sId \o <<"=">> \o id
        \o SrcQuery(template)
        \o attrsToQuery(template.attrs, Str(sJs), TRUE)

genTemplateCode(descriptor, resourcePath, id, isServer) ==
    IF descriptor.template.present
    THEN <<Line("import_named", RenderFnName(isServer), -1,
                TemplateRequest(descriptor.template, resourcePath, id))>>
    ELSE <<Line("const_noop", RenderFnName(isServer), -1, <<>>)>>

----------------------------------------------------------------------------
(* genScriptCode *)

\* compileScript of @vue/compiler-sfc: the block of the script-setup variant
\* when there is one, the plain script otherwise
compileScript(descriptor) ==
    IF descriptor.scriptSetup.present THEN descriptor.scriptSetup
    ELSE descriptor.script

\* descriptor.scriptCompiled after genScriptCode
ScriptCompiled(descriptor) ==
    IF descriptor.script.present \/ descriptor.scriptSetup.present
    THEN compileScript(descriptor)
    ELSE descriptor.scriptCompiled

ScriptRequest(script, resourcePath) ==
    SrcOr(script, resourcePath)
        \o <<"?">> \o sVue \o <<"&">> \o sType \o <<"=">> \o sScript
        \o SrcQuery(script)
        \o attrsToQuery(script.attrs, Str(sJs), FALSE)

genScriptCode(descriptor, resourcePath, id, isProd, isServer) ==
    IF descriptor.script.present \/ descriptor.scriptSetup.present
    THEN LET compiled == ScriptCompiled(descriptor)
             script == IF compiled.present THEN compiled ELSE descriptor.script
         IN  IF script.present
             THEN <<Line("import_default", "script", -1,
                         ScriptRequest(script, resourcePath)),
                    Line("export_all", "", -1,
                         ScriptRequest(script, resourcePath))>>
             ELSE <<Line("const_empty", "script", -1, <<>>)>>
    ELSE <<Line("const_empty", "script", -1, <<>>)>>

----------------------------------------------------------------------------
(* genStyleCode and genCSSModulesCode *)

IsPrefixAt(s, p, pre) ==
    /\ p + Len(pre) - 1 <= Len(s)
    /\ SubSeq(s, p, p + Len(pre) - 1) = pre

\* the length of the longest run of characters other than "&" from p on
RECURSIVE RunNotAmp(_, _)
RunNotAmp(s, p) ==
    IF p > Len(s) \/ s[p] = "&" THEN 0 ELSE 1 + RunNotAmp(s, p + 1)

\* the length of what (=true|=[^&]+)? matches at p
OptionalValueLen(s, p) ==
    IF IsPrefixAt(s, p, <<"=">> \o sTrue) THEN 1 + Len(sTrue)
    ELSE IF IsPrefixAt(s, p, <<"=">>) /\ RunNotAmp(s, p + 1) > 0
         THEN 1 + RunNotAmp(s, p + 1)
         ELSE 0

\* attrsQuery.replace(/&module(=true|=[^&]+)?/, '')
WithoutModule(attrsQuery) ==
    LET key == <<"&">> \o sModule
        hits == {p \in 1..Len(attrsQuery) : IsPrefixAt(attrsQuery, p, key)}
    IN  IF hits = {} THEN attrsQuery
        ELSE LET p == CHOOSE x \in hits : \A y \in hits : x <= y
                 n == Len(key) + OptionalValueLen(attrsQuery, p + Len(key))
             IN  SubSeq(attrsQuery, 1, p - 1)
                     \o SubSeq(attrsQuery, p + n, Len(attrsQuery))

\* a query that leaves the scope token out
MutStyleQueryNoId(style, i, id) ==
    <<"?">> \o sVue \o <<"&">> \o sType \o <<"=">> \o sStyle
        \o <<"&">> \o sIndex \o <<"=">> \o NumStr(i)
        \o SrcQuery(style)

StyleQuery(style, i, id) ==
    <<"?">> \o sVue \o <<"&">> \o sType \o <<"=">> \o sStyle
        \o <<"&">> \o sIndex \o <<"=">> \o NumStr(i)
        \o SrcQuery(style)
        \o <<"&">> \o sId \o <<"=">> \o id

StyleRequest(style, i, resourcePath, id, preprocessStyles) ==
    SrcOr(style, resourcePath) \o StyleQuery(style, i, id)
        \o attrsToQuery(style.attrs, Str(sCss), preprocessStyles)

StyleRequestWithoutModule(style, i, resourcePath, id, preprocessStyles) ==
    SrcOr(style, resourcePath) \o StyleQuery(style, i, id)
        \o WithoutModule(attrsToQuery(style.attrs, Str(sCss), preprocessStyles))

genCSSModulesCode(id, index, request, requestWithoutModule, moduleName) ==
    <<Line("import_side", "", index, requestWithoutModule),
      Line("import_default", "style", index, request \o sDotJs),
      Line("cssmodules_set", "style", index,
           IF moduleName.t = "str" THEN moduleName.s ELSE sDollarStyle)>>

\* the forEach of genStyleCode from section i + 1 on (i counts from 0)
RECURSIVE StyleLoop(_, _, _, _, _, _, _)
StyleLoop(styles, i, stylesCode, hasCSSModules, resourcePath, id, preprocessStyles) ==
    IF i >= Len(styles) THEN stylesCode
    ELSE LET style == styles[i + 1]
             styleRequest ==
                 StyleRequest(style, i, resourcePath, id, preprocessStyles)
             styleRequestWithoutModule ==
                 StyleRequestWithoutModule(style, i, resourcePath, id, preprocessStyles)
             init == IF ~hasCSSModules
                     THEN AppendLine(stylesCode,
                                     Line("cssmodules_init", "", -1, <<>>))
                     ELSE stylesCode
         IN  IF Truthy(style.module)
             THEN StyleLoop(styles, i + 1,
                            init \o genCSSModulesCode(id, i, styleRequest,
                                                      styleRequestWithoutModule,
                                                      style.module),
                            TRUE, resourcePath, id, preprocessStyles)
             ELSE StyleLoop(styles, i + 1,
                            AppendLine(stylesCode,
                                       Line("import_side", "", i, styleRequest)),
                            hasCSSModules, resourcePath, id, preprocessStyles)

genStyleCode(descriptor, resourcePath, id, preprocessStyles) ==
    StyleLoop(descriptor.styles, 0, Empty, FALSE, resourcePath, id, preprocessStyles)

----------------------------------------------------------------------------
(* getCustomBlock *)

Filters == {"all", "i18nOnly", "none"}

\* the caller's filter predicate
Accepts(filter, type) ==
    CASE filter = "all" -> TRUE
      [] filter = "i18nOnly" -> type = sI18n
      [] OTHER -> FALSE

\* an index that counts from 1
MutBlockRequestIndexPlusOne(block, index, resourcePath) ==
    SrcOr(block, resourcePath)
        \o <<"?">> \o sVue \o <<"&">> \o sType \o <<"=">> \o block.type
        \o <<"&">> \o sIndex \o <<"=">> \o NumStr(index + 1)
        \o SrcQuery(block)
        \o attrsToQuery(block.attrs, Str(block.type), FALSE)

BlockRequest(block, index, resourcePath) ==
    SrcOr(block, resourcePath)
        \o <<"?">> \o sVue \o <<"&">> \o sType \o <<"=">> \o block.type
        \o <<"&">> \o sIndex \o <<"=">> \o NumStr(index)
        \o SrcQuery(block)
        \o attrsToQuery(block.attrs, Str(block.type), FALSE)

\* the forEach of getCustomBlock from block index + 1 on (index counts from 0)
RECURSIVE BlockLoop(_, _, _, _, _)
BlockLoop(blocks, index, code, resourcePath, filter) ==
    IF index >= Len(blocks) THEN code
    ELSE LET block == blocks[index + 1]
         IN  IF Accepts(filter, block.type)
             THEN BlockLoop(blocks, index + 1,
                       AppendLineNl(
                           AppendLineNl(code,
                               Line("import_default", "block", index,
                                    BlockRequest(block, index, resourcePath))),
                           Line("if_function_call", "block", index, <<>>)),
                       resourcePath, filter)
             ELSE BlockLoop(blocks, index + 1, code, resourcePath, filter)

getCustomBlock(descriptor, resourcePath, filter) ==
    BlockLoop(descriptor.customBlocks, 0, Empty, resourcePath, filter)

----------------------------------------------------------------------------
(* transformSFCEntry *)

Resources == {"/proj/src/A.vue", "/proj/lib/B.vue"}

sourceRoot == "/proj/src"

\* path.relative(sourceRoot, resourcePath) with the leading "../" removed and
\* the separators made "/"
ShortFilePath(root, resourcePath) ==
    IF resourcePath = "/proj/src/A.vue" THEN "A.vue" ELSE "lib/B.vue"

\* path.basename
Basename(shortFilePath) == IF shortFilePath = "A.vue" THEN "A.vue" ELSE "B.vue"

\* hash-sum: a token that is a function of the text hashed
HashSum(text) == "#(" \o text \o ")"

ScopeId(code, resourcePath, isProduction) ==
    <<HashSum(IF isProduction
              THEN ShortFilePath(sourceRoot, resourcePath) \o "\n" \o code.text
              ELSE ShortFilePath(sourceRoot, resourcePath))>>

\* parse of @vue/compiler-sfc: the structured document of a text, and the
\* structural diagnostics
parse(code) == [descriptor |-> code.descriptor, errors |-> code.errors]

\* setDescriptor of ./utils/descriptorCache
setDescriptor(c, id, descriptor) == [c EXCEPT ![id] = <<descriptor>>]

\* createRollupError of ./utils/error
createRollupError(id, error) == [id |-> id, error |-> error]

\* a cache written only by the transforms that succeed
MutCacheAfterParseOnSuccess(c, resourcePath, descriptor, errors) ==
    IF errors = <<>> THEN setDescriptor(c, resourcePath, descriptor) ELSE c

\* the cache after line 32
CacheAfterParse(c, resourcePath, descriptor, errors) ==
    setDescriptor(c, resourcePath, descriptor)

\* a report that stops at the first diagnostic
MutReportErrorsFirstOnly(resourcePath, errors) ==
    <<createRollupError(resourcePath, errors[1])>>

\* errors.forEach(error => pluginContext.error(createRollupError(...)))
ReportErrors(resourcePath, errors) ==
    [i \in 1..Len(errors) |-> createRollupError(resourcePath, errors[i])]

\* an import of the template whenever there is a template
MutHasTemplateImportAlways(descriptor, isServer) == descriptor.template.present

HasTemplateImport(descriptor, isServer) ==
    descriptor.template.present /\ (isServer \/ ~descriptor.scriptSetup.present)

\* the placeholder of genTemplateCode when no template is imported
MutTemplateImportPlaceholder(descriptor, resourcePath, scopeId, isServer) ==
    IF HasTemplateImport(descriptor, isServer)
    THEN genTemplateCode(descriptor, resourcePath, scopeId, isServer)
    ELSE <<Line("const_noop", RenderFnName(isServer), -1, <<>>)>>

TemplateImport(descriptor, resourcePath, scopeId, isServer) ==
    IF HasTemplateImport(descriptor, isServer)
    THEN genTemplateCode(descriptor, resourcePath, scopeId, isServer)
    ELSE Empty

RenderReplace(descriptor, isServer) ==
    IF HasTemplateImport(descriptor, isServer)
    THEN <<Line("assign_render", RenderFnName(isServer), -1, <<>>)>>
    ELSE Empty

\* the text of the module: output.join('\n')
Output(a, descriptor) ==
    LET shortFilePath == ShortFilePath(sourceRoot, a.resourcePath)
        scopeId == ScopeId(a.code, a.resourcePath, a.isProduction)
        hasScoped == \E i \in 1..Len(descriptor.styles) : descriptor.styles[i].scoped
    IN  genScriptCode(descriptor, a.resourcePath, scopeId, a.isProduction, a.isServer)
        \o TemplateImport(descriptor, a.resourcePath, scopeId, a.isServer)
        \o genStyleCode(descriptor, a.resourcePath, scopeId, a.preprocessStyles)
        \o getCustomBlock(descriptor, a.resourcePath, a.filter)
        \o RenderReplace(descriptor, a.isServer)
        \o (IF hasScoped
            THEN <<Line("scope_id", "", -1, sDataV \o scopeId)>> ELSE <<>>)
        \o (IF ~a.isProduction
            THEN <<Line("file", "", -1, <<shortFilePath>>)>>
            ELSE IF a.exposeFilename
                 THEN <<Line("file", "", -1, <<Basename(shortFilePath)>>)>>
                 ELSE <<>>)
        \o <<Line("export_default", "script", -1, <<>>)>>

NoResult == [ret |-> "none", code |-> <<>>, mappings |-> ""]

\* one invocation of transformSFCEntry with the arguments a
transformSFCEntry(a) ==
    LET p == parse(a.code)
        \* the descriptor object once the invocation has returned:
        \* genScriptCode sets its scriptCompiled
        after == IF p.errors = <<>>
                 THEN [p.descriptor EXCEPT
                          !.scriptCompiled = ScriptCompiled(p.descriptor)]
                 ELSE p.descriptor
    IN  /\ cache' = CacheAfterParse(cache, a.resourcePath, after, p.errors)
        /\ lastParsed' = [lastParsed EXCEPT ![a.resourcePath] = <<p.descriptor>>]
        /\ IF p.errors # <<>>
           THEN /\ reported' = ReportErrors(a.resourcePath, p.errors)
                /\ result' = [ret |-> "null", code |-> <<>>, mappings |-> ""]
           ELSE /\ reported' = <<>>
                /\ result' = [ret |-> "module", code |-> Output(a, p.descriptor),
                            mappings |-> ""]

----------------------------------------------------------------------------
(* The inputs *)

SeqsUpTo(S, n) == UNION {[1..k -> S] : k \in 0..n}

DistinctNames(attrs) ==
    \A i, j \in 1..Len(attrs) : attrs[i].name = attrs[j].name => i = j

TemplateCatalog ==
    {Absent,
     Section(sTemplate, <<>>),
     Section(sTemplate, <<Attr(sLang, Str(sPug))>>),
     Section(sTemplate, <<Attr(sSrc, Str(<<"./t.html">>)), Attr(sId, Str(<<"x">>))>>),
     Section(sTemplate, <<Attr(sType, Str(sStyle)), Attr(sIndex, Str(<<"7">>)),
                          Attr(sColonKey, True)>>)}

ScriptCatalog ==
    {Absent,
     Section(sScript, <<>>),
     Section(sScript, <<Attr(sLang, Str(sTs)), Attr(sId, Str(<<"x">>))>>),
     Section(sScript, <<Attr(sSrc, Str(<<"./s.js">>)), Attr(sType, Str(sStyle)),
                        Attr(sIndex, True)>>)}

ScriptSetupCatalog ==
    {Absent,
     Section(sScript, <<Attr(sSetup, True)>>),
     Section(sScript, <<Attr(sSetup, True), Attr(sLang, Str(sTs))>>)}

StyleCatalog ==
    {Section(sStyle, <<>>),
     Section(sStyle, <<Attr(sModule, Str(sCls)), Attr(sScoped, True)>>),
     Section(sStyle, <<Attr(sModules, True), Attr(sModule, True)>>),
     Section(sStyle, <<Attr(sLang, Str(sScss)), Attr(sModule, True),
                       Attr(sId, Str(<<"x">>))>>),
     Section(sStyle, <<Attr(sSrc, Str(<<"./s.css">>)), Attr(sIndex, Str(<<"7">>)),
                       Attr(sScoped, True)>>),
     Section(sStyle, <<Attr(sModule, Str(sTrueX))>>)}

BlockCatalog ==
    {Section(sI18n, <<>>),
     Section(sDocs, <<>>),
     Section(sI18n, <<Attr(sLang, Str(sJson)), Attr(sType, Str(sStyle))>>),
     Section(sDocs, <<Attr(sSrc, Str(<<"./d.md">>)), Attr(sIndex, Str(<<"7">>)),
                      Attr(sId, Str(<<"x">>)), Attr(sColonKey, Str(sSpaced))>>)}

Diagnostics == {"element is missing end tag", "at most one <template>",
                "invalid end tag"}

ErrorLists ==
    {e \in SeqsUpTo(Diagnostics, MaxErrors) :
        \A i, j \in 1..Len(e) : e[i] = e[j] => i = j}

\* documents that differ in their script and template sections
TemplateDocs ==
    {Descriptor(s, ss, t, <<>>, <<>>) :
        s \in ScriptCatalog, ss \in ScriptSetupCatalog, t \in TemplateCatalog}

\* documents that differ in their style sections
StyleDocs ==
    {Descriptor(Section(sScript, <<>>), Absent, Section(sTemplate, <<>>), st, <<>>) :
        st \in SeqsUpTo(StyleCatalog, MaxStyles)}

\* documents that differ in their custom blocks
BlockDocs ==
    {Descriptor(Section(sScript, <<>>), Absent, Section(sTemplate, <<>>), <<>>, b) :
        b \in SeqsUpTo(BlockCatalog, MaxBlocks)}

\* what the parser returns beside its diagnostics for a malformed text
PartialDocs ==
    {Descriptor(Absent, Absent, Absent, <<>>, <<>>),
     Descriptor(Section(sScript, <<>>), Section(sScript, <<Attr(sSetup, True)>>),
                Section(sTemplate, <<>>),
                <<Section(sStyle, <<Attr(sModule, True)>>)>>,
                <<Section(sI18n, <<>>)>>)}

\* a source text, with what the parser makes of it
Code(descriptor, errors) ==
    [text |-> ToString(<<descriptor, errors>>),
     descriptor |-> descriptor, errors |-> errors]

Codes ==
    {Code(d, <<>>) : d \in TemplateDocs \cup StyleDocs \cup BlockDocs}
    \cup {Code(d, e) : d \in PartialDocs, e \in ErrorLists \ {<<>>}}

Inputs ==
    [code : Codes, resourcePath : Resources,
     isProduction : BOOLEAN, isServer : BOOLEAN, exposeFilename : BOOLEAN,
     preprocessStyles : BOOLEAN, filter : Filters]

\* the documents of the runs that transform two resources again and again
CacheCodes ==
    {Code(d, e) : d \in PartialDocs, e \in ErrorLists}
    \cup {Code(Descriptor(Absent, Absent, Section(sTemplate, <<>>), <<>>, <<>>), <<>>)}

CacheInputs ==
    [code : CacheCodes, resourcePath : Resources,
     isProduction : {FALSE}, isServer : BOOLEAN, exposeFilename : {FALSE},
     preprocessStyles : {FALSE}, filter : {"all"}]

QueryNames == {sLang, sId, sModule, sColonKey}

\* the parser gives an attribute without a value, or with an empty one, the
\* present marker true: a value is true or a non-empty string
QueryValues == {True, Str(sTs), Str(sAmpVal)}

QueryAttrs ==
    {m \in SeqsUpTo({Attr(n, v) : n \in QueryNames, v \in QueryValues}, MaxAttrs) :
        DistinctNames(m)}

QueryInputs ==
    [attrs : QueryAttrs, langFallback : {Undef, Str(sJs), Str(sCss)},
     forceLangFallback : BOOLEAN]

NoQuery == [done |-> FALSE, attrs |-> <<>>, langFallback |-> Undef,
            forceLangFallback |-> FALSE, out |-> <<>>]

NoArgs == [code |-> Code(Descriptor(Absent, Absent, Absent, <<>>, <<>>), <<>>),
           resourcePath |-> "/proj/src/A.vue",
           isProduction |-> FALSE, isServer |-> FALSE, exposeFilename |-> FALSE,
           preprocessStyles |-> FALSE, filter |-> "all"]

EmptyCache == [r \in Resources |-> <<>>]

----------------------------------------------------------------------------
(* One transform of one document *)

Init ==
    /\ args \in Inputs
    /\ pc = "pending"
    /\ cache = EmptyCache
    /\ lastParsed = EmptyCache
    /\ reported = <<>>
    /\ result = NoResult
    /\ q = NoQuery

Transform ==
    /\ pc = "pending"
    /\ transformSFCEntry(args)
    /\ pc' = "done"
    /\ UNCHANGED <<args, q>>

Next == Transform

Spec == Init /\ [][Next]_vars

----------------------------------------------------------------------------
(* Transforms of two resources, one after the other, in any order *)

InitCache ==
    /\ args = NoArgs
    /\ pc = "done"
    /\ cache = EmptyCache
    /\ lastParsed = EmptyCache
    /\ reported = <<>>
    /\ result = NoResult
    /\ q = NoQuery

Invoke ==
    \E a \in CacheInputs :
        /\ args' = a
        /\ transformSFCEntry(a)
        /\ UNCHANGED <<pc, q>>

NextCache == Invoke

SpecCache == InitCache /\ [][NextCache]_vars

----------------------------------------------------------------------------
(* attrsToQuery on its own *)

InitQuery ==
    /\ args = NoArgs
    /\ pc = "done"
    /\ cache = EmptyCache
    /\ lastParsed = EmptyCache
    /\ reported = <<>>
    /\ result = NoResult
    /\ \E i \in QueryInputs :
          q = [done |-> FALSE, attrs |-> i.attrs, langFallback |-> i.langFallback,
               forceLangFallback |-> i.forceLangFallback, out |-> <<>>]

ApplyAttrsToQuery ==
    /\ ~q.done
    /\ q' = [q EXCEPT !.done = TRUE,
                      !.out = attrsToQuery(q.attrs, q.langFallback,
                                           q.forceLangFallback)]
    /\ UNCHANGED <<args, pc, cache, lastParsed, reported, result>>

NextQuery == ApplyAttrsToQuery

SpecQuery == InitQuery /\ [][NextQuery]_vars

----------------------------------------------------------------------------
(* Reading an address: <path>?vue&<param>&<param>...                        *)

\* the position of the first c of s, 0 when there is none
RECURSIVE IndexFrom(_, _, _)
IndexFrom(s, c, p) ==
    IF p > Len(s) THEN 0 ELSE IF s[p] = c THEN p ELSE IndexFrom(s, c, p + 1)

\* the pieces of s from position p on, between the occurrences of c
RECURSIVE SplitFrom(_, _, _)
SplitFrom(s, c, p) ==
    LET e == IndexFrom(s, c, p)
    IN  IF e = 0 THEN <<SubSeq(s, p, Len(s))>>
        ELSE <<SubSeq(s, p, e - 1)>> \o SplitFrom(s, c, e + 1)

Split(s, c) == SplitFrom(s, c, 1)

PathOf(address) ==
    LET p == IndexFrom(address, "?", 1)
    IN  IF p = 0 THEN address ELSE SubSeq(address, 1, p - 1)

\* the parameters of an address, the flag "vue" first
ParamsOf(address) ==
    LET p == IndexFrom(address, "?", 1)
    IN  IF p = 0 THEN <<>> ELSE Split(SubSeq(address, p + 1, Len(address)), "&")

\* the parameters of the result of attrsToQuery: "&a&b" has the two a and b
QueryParams(query) == IF query = <<>> THEN <<>> ELSE Tail(Split(query, "&"))

KeyOf(param) ==
    LET p == IndexFrom(param, "=", 1)
    IN  IF p = 0 THEN param ELSE SubSeq(param, 1, p - 1)

KeyValue(key, value) == key \o <<"=">> \o value

HasParam(address, param) ==
    LET params == ParamsOf(address)
    IN  \E i \in 1..Len(params) : params[i] = param

IsSuffix(s, suf) ==
    /\ Len(suf) <= Len(s)
    /\ SubSeq(s, Len(s) - Len(suf) + 1, Len(s)) = suf

Contains(s, sub) == \E p \in 1..Len(s) : IsPrefixAt(s, p, sub)

IsAddressLine(line) ==
    line.kind \in {"import_default", "export_all", "import_named", "import_side"}

\* the lines of the returned module that import from an address
AddressLines == {i \in 1..Len(result.code) : IsAddressLine(result.code[i])}

Returned == pc = "done" /\ result.ret = "module"

TheDescriptor == args.code.descriptor

TheScopeId == ScopeId(args.code, args.resourcePath, args.isProduction)

TemplateAddressLines ==
    {i \in AddressLines :
        HasParam(result.code[i].req, KeyValue(sType, sTemplate))}

----------------------------------------------------------------------------
(* C1 *)

\* C1: the returned module imports from a template address if and only if
\* the document has a template section and (server rendering is on or the
\* document has no scriptSetup variant); when it does, from exactly one.
C1_TemplateAddressIff ==
    Returned =>
        Cardinality(TemplateAddressLines) =
            (IF TheDescriptor.template.present
                /\ (args.isServer \/ ~TheDescriptor.scriptSetup.present)
             THEN 1 ELSE 0)

\* a template and a scriptSetup variant, no server rendering: no address
C1_Witness ==
    /\ Returned
    /\ TheDescriptor.template.present
    /\ TheDescriptor.scriptSetup.present
    /\ ~args.isServer
    /\ TemplateAddressLines = {}

----------------------------------------------------------------------------
(* C3 *)

\* C3: after any sequence of transforms of the two resources, succeeding or
\* reporting errors, the cache holds for each resource the descriptor that
\* the most recent transform of that resource parsed, and nothing for a
\* resource that was never transformed.
C3_CacheHoldsLastParse ==
    \A r \in Resources :
        /\ Len(cache[r]) = Len(lastParsed[r])
        /\ cache[r] # <<>> => Parsed(cache[r][1]) = lastParsed[r][1]

\* both resources transformed, to different documents, the last transform
\* being one that reported errors
C3_Witness ==
    /\ \A r \in Resources : cache[r] # <<>>
    /\ \E r1, r2 \in Resources : Parsed(cache[r1][1]) # Parsed(cache[r2][1])
    /\ result.ret = "null"
    /\ Parsed(cache[args.resourcePath][1]) = args.code.descriptor

----------------------------------------------------------------------------
(* C4 *)

----------------------------------------------------------------------------
(* C10 *)

RenderLines ==
    {i \in 1..Len(result.code) :
        result.code[i].kind \in {"const_noop", "import_named", "assign_render"}}

\* C10, as the specification states it: whenever no template address is
\* generated, the module text binds render or ssrRender to an empty function.
C10_PlaceholderWhenNoAddress ==
    (Returned /\ TemplateAddressLines = {}) =>
        \E i \in 1..Len(result.code) : result.code[i].kind = "const_noop"

\* C10, amended: whenever no template address is generated, the module text
\* has no render binding at all: no placeholder, no import of a render
\* function and no assignment to script.render or script.ssrRender; the
\* lines of the template import and of the render assignment are empty.
C10_NoRenderBindingWhenNoAddress ==
    (Returned /\ TemplateAddressLines = {}) =>
        /\ RenderLines = {}
        /\ \E i \in 1..Len(result.code) :
              /\ result.code[i] = Blank
              /\ i > 1
              /\ result.code[i - 1].kind \in {"const_empty", "export_all"}

\* a template and a scriptSetup variant without server rendering
C10_Witness ==
    /\ Returned
    /\ TheDescriptor.template.present
    /\ TheDescriptor.scriptSetup.present
    /\ ~args.isServer
    /\ RenderLines = {}

----------------------------------------------------------------------------
(* C2 *)

\* the lines the module has for the style section of index i
StyleAddressLines(i) ==
    {k \in AddressLines :
        /\ result.code[k].idx = i
        /\ HasParam(result.code[k].req, KeyValue(sType, sStyle))}

IsModuleParam(param) == KeyOf(param) = sModule

\* address without its ".js" and without its module parameter, the other
\* parameters as they are and in their order
RECURSIVE JoinParams(_)
JoinParams(params) ==
    IF params = <<>> THEN <<>>
    ELSE IF Len(params) = 1 THEN Head(params)
    ELSE Head(params) \o <<"&">> \o JoinParams(Tail(params))

CompanionOf(jsAddress) ==
    LET address == SubSeq(jsAddress, 1, Len(jsAddress) - Len(sDotJs))
        NotModule(param) == ~IsModuleParam(param)
    IN  PathOf(address) \o <<"?">>
            \o JoinParams(SelectSeq(ParamsOf(address), NotModule))

\* C2: a style section that is a CSS module gets exactly two addresses, one
\* ending in ".js" and a companion that is the ".js" address without the
\* ".js" and without exactly the module attribute.
C2_CompanionIsJsAddressMinusModule ==
    Returned =>
        \A i \in 0..(Len(TheDescriptor.styles) - 1) :
            Truthy(TheDescriptor.styles[i + 1].module) =>
                /\ Cardinality(StyleAddressLines(i)) = 2
                /\ \E j, c \in StyleAddressLines(i) :
                      /\ j # c
                      /\ IsSuffix(result.code[j].req, sDotJs)
                      /\ result.code[c].req = CompanionOf(result.code[j].req)

----------------------------------------------------------------------------
(* C5 *)

\* the lines of the module that name the custom block of index n
BlockLines(n) ==
    {k \in 1..Len(result.code) :
        result.code[k].fn = "block" /\ result.code[k].idx = n}

\* the addresses that carry the type and the index of the custom block n
BlockAddressLines(n) ==
    {k \in AddressLines :
        /\ HasParam(result.code[k].req,
                    KeyValue(sType, TheDescriptor.customBlocks[n + 1].type))
        /\ HasParam(result.code[k].req, KeyValue(sIndex, NumStr(n)))}

\* C5: a custom block at position n of the parse order gets exactly one
\* address, with type=<its type> and index=n, when the filter accepts its
\* type, and no address and no line at all when the filter rejects it.
C5_CustomBlockAddressByParseIndex ==
    Returned =>
        \A n \in 0..(Len(TheDescriptor.customBlocks) - 1) :
            IF Accepts(args.filter, TheDescriptor.customBlocks[n + 1].type)
            THEN /\ Cardinality(BlockAddressLines(n)) = 1
                 /\ BlockAddressLines(n) \subseteq BlockLines(n)
                 /\ Cardinality(BlockLines(n) \cap AddressLines) = 1
            ELSE /\ BlockAddressLines(n) = {}
                 /\ BlockLines(n) = {}

\* a rejected block before an accepted one: the accepted one keeps index 1
C5_Witness ==
    /\ Returned
    /\ Len(TheDescriptor.customBlocks) = 2
    /\ ~Accepts(args.filter, TheDescriptor.customBlocks[1].type)
    /\ Accepts(args.filter, TheDescriptor.customBlocks[2].type)
    /\ BlockLines(0) = {}
    /\ Cardinality(BlockAddressLines(1)) = 1

----------------------------------------------------------------------------
(* C6 *)

IsCompanionLine(k) ==
    /\ result.code[k].kind = "import_side"
    /\ result.code[k].idx >= 0
    /\ Truthy(TheDescriptor.styles[result.code[k].idx + 1].module)

IsPrefix(pre, s) == IsPrefixAt(s, 1, pre)

----------------------------------------------------------------------------
(* C7 *)

\* the attributes of q that are not built-in parameters, in their order
KeptAttrs ==
    LET NotBuiltIn(a) == a.name \notin {sId, sIndex, sSrc, sType, sLang}
    IN  SelectSeq(q.attrs, NotBuiltIn)

\* C7, as the specification states it: an attribute that is no built-in
\* parameter is written as the bare encoded key when its value is the
\* present marker true, and as key=value, both encoded, when it is a string.
C7_BareKeyForPresentMarker ==
    q.done =>
        /\ Len(QueryParams(q.out)) >= Len(KeptAttrs)
        /\ \A i \in 1..Len(KeptAttrs) :
              QueryParams(q.out)[i] =
                  (IF KeptAttrs[i].value.t = "true"
                   THEN Escape(KeptAttrs[i].name)
                   ELSE KeyValue(Escape(KeptAttrs[i].name),
                                 Escape(KeptAttrs[i].value.s)))

\* C7, amended: an attribute that is no built-in parameter is written as
\* key=true when its value is the present marker true, and as key=value
\* when it is a non-empty string, key and value percent-encoded.
C7_KeyEqualsTrueForPresentMarker ==
    q.done =>
        /\ Len(QueryParams(q.out)) >= Len(KeptAttrs)
        /\ \A i \in 1..Len(KeptAttrs) :
              QueryParams(q.out)[i] =
                  (IF KeptAttrs[i].value.t = "true"
                   THEN KeyValue(Escape(KeptAttrs[i].name), sTrue)
                   ELSE KeyValue(Escape(KeptAttrs[i].name),
                                 Escape(KeptAttrs[i].value.s)))

\* a present marker, and a key and a string that need encoding
C7_Witness ==
    /\ q.done
    /\ Len(KeptAttrs) = 2
    /\ KeptAttrs[1].value.t = "true"
    /\ KeptAttrs[2].name = sColonKey
    /\ KeptAttrs[2].value = Str(sAmpVal)
    /\ Contains(q.out, <<"=">> \o sTrue)

----------------------------------------------------------------------------
(* C9 *)

LangMark == <<"&">> \o sLang \o <<".">>

Rendered(v) == IF v.t = "str" THEN v.s ELSE IF v.t = "true" THEN sTrue ELSE sUndefined

\* C9: attrsToQuery ends its result with a language suffix if and only if a
\* fallback language was given or the map declares lang; the suffix is
\* &lang.<X>, X being the fallback when the force flag is set, else the
\* map's lang when it declares one, else the fallback.
C9_LangSuffix ==
    q.done =>
        IF q.langFallback.t = "str" \/ Has(q.attrs, sLang)
        THEN IsSuffix(q.out,
                 LangMark \o
                     (IF q.forceLangFallback THEN Rendered(q.langFallback)
                      ELSE IF Has(q.attrs, sLang)
                           THEN Rendered(Get(q.attrs, sLang))
                           ELSE Rendered(q.langFallback)))
        ELSE ~Contains(q.out, LangMark)

\* a forced fallback beside a lang the author declared
C9_Witness ==
    /\ q.done
    /\ q.forceLangFallback
    /\ q.langFallback = Str(sCss)
    /\ Get(q.attrs, sLang) = Str(sTs)
    /\ IsSuffix(q.out, LangMark \o sCss)

----------------------------------------------------------------------------
(* C8 *)

\* the parameters of an address after the flag "vue"
RoutedParams(address) == Tail(ParamsOf(address))

\* the parameters id, index and type of an address, in their order
OwnedParams(address) ==
    LET IsOwned(param) == KeyOf(param) \in {sId, sIndex, sType}
    IN  SelectSeq(RoutedParams(address), IsOwned)

SrcParams(address) ==
    LET IsSrc(param) == KeyOf(param) = sSrc
    IN  SelectSeq(RoutedParams(address), IsSrc)

LangParams(address) ==
    LET IsLang(param) == KeyOf(param) = sLang
    IN  SelectSeq(RoutedParams(address), IsLang)

LangSuffixes(address) ==
    LET IsLangSuffix(param) == IsPrefix(sLang \o <<".">>, param)
    IN  SelectSeq(RoutedParams(address), IsLangSuffix)

\* what the router writes for id, index and type into the address of line k
RouterParams(k) ==
    LET line == result.code[k]
    IN  IF line.kind = "import_named"
        THEN <<KeyValue(sType, sTemplate), KeyValue(sId, TheScopeId)>>
        ELSE IF line.fn = "block"
        THEN <<KeyValue(sType, TheDescriptor.customBlocks[line.idx + 1].type),
               KeyValue(sIndex, NumStr(line.idx))>>
        ELSE IF line.idx >= 0
        THEN <<KeyValue(sType, sStyle), KeyValue(sIndex, NumStr(line.idx)),
               KeyValue(sId, TheScopeId)>>
        ELSE <<KeyValue(sType, sScript)>>

\* C8: whatever built-in keys the attribute maps declare, every address has
\* each of id, index, src and type at most once and with the router's value
\* (src as the bare flag, and only for a section that has a src), no lang
\* parameter from the map, and at most one language suffix.
C8_ReservedKeysOwnedByRouter ==
    Returned =>
        \A k \in AddressLines :
            /\ OwnedParams(result.code[k].req) = RouterParams(k)
            /\ SrcParams(result.code[k].req) =
                  (IF PathOf(result.code[k].req) = <<args.resourcePath>>
                   THEN <<>> ELSE <<sSrc>>)
            /\ LangParams(result.code[k].req) = <<>>
            /\ Len(LangSuffixes(result.code[k].req)) <= 1

====
